---- MODULE Spec2Model ----
(***************************************************************************)
(* Model of the uwu command client (src/src/main.rs): one process that     *)
(* sends a Request datagram to the Unity peer over a process-wide UDP      *)
(* socket, resends it on every read timeout, and interprets the peer's     *)
(* Success / Error / Wait responses; the dispatcher (main) that maps a     *)
(* subcommand onto one or two exchanges; and the watch loop that turns     *)
(* debounced filesystem events into BackgroundRefresh exchanges.           *)
(* The peer, the network and the notification source are the environment.  *)
(* A second specification, IdSpec, applies the conversions of the          *)
(* correlation id (src/src/id64.rs) to sample ids and texts.               *)
(***************************************************************************)
EXTENDS Naturals, Sequences, FiniteSets

\* ------------------------------------------------------------------ bounds
QueueCap == 1      \* datagrams a socket buffer holds; more are dropped
SendCap == 2       \* the send and timeout counters of an exchange saturate here
EventCap == 2      \* debounced events waiting in the rx queue
NumIds == 2        \* distinct values the random correlation ids take
MaxTextLen == 12   \* characters of a text handed to Id64's TryFrom

\* --------------------------------------------------------------- constants
Modes == {"play", "stop", "refresh", "build", "watch"}
Commands == {"Play", "CheckAlive", "Stop", "Refresh", "BackgroundRefresh", "Build"}
Responses == {"Success", "Error", "Wait"}
EventKinds == {"NoticeWrite", "NoticeRemove", "Create", "Write", "Chmod",
               "Remove", "Rename", "Rescan", "Error"}
\* the read timeout of SOCKET: never set, Some(TIMEOUT), or None
Timeouts == {"unset", "TIMEOUT", "None"}
\* environment profiles of the peer: unconstrained, or one of the scripted
\* peers the end-to-end scenarios name
Profiles == {"any", "success", "wait_success", "wait_restart", "error_busy"}

NoReq == [id |-> 0, cmd |-> "none"]
NoResult == [ok |-> FALSE, msg |-> {}]

VARIABLES
    mode,      \* the subcommand given to main
    profile,   \* environment: how the peer behaves in this run
    pc,        \* where the client thread is
    step,      \* main: index of the next command of the subcommand
    req,       \* single_command: its local Request, NoReq outside the call
    msg,       \* send_reliable_blocking: its local serialized request
    timeout,   \* SOCKET's read timeout
    toPeer,    \* datagrams sent to UNITY_ADDR and not yet received by the peer
    inbox,     \* datagrams queued on SOCKET, oldest first
    peerUp,    \* environment: the peer is listening
    pending,   \* environment: commands the peer answered Wait and still owes a final response
    events,    \* watch: the number of debounced events waiting in the rx queue
    event,     \* watch: the event rx.recv() returned, "none" outside the match
    arrived,   \* environment: the arrival number of the newest event sent into the queue
    ticket,    \* history: the arrival number of the event rx.recv() returned last
    closed,    \* environment: the tx side of the event queue is gone
    result,    \* the value send_reliable_blocking returned, until the caller took it
    exit,      \* process outcome: "running", "ok" (zero) or "err" (non-zero)
    errmsg,    \* the message of the error main returned
    okPrinted, \* main printed "ok"
    logged,    \* watch: the refresh closure logged the error of its exchange
    xch,       \* history of the exchange, until the caller took its result
    hist,      \* history: what main's single_command calls returned, oldest first
    endian,    \* id64: the byte order of the target the program was built for
    id,        \* id64: the Id64 value, as the 8 base-256 digits of its u64
    string,    \* id64: the text form, a sequence of characters
    bytes,     \* id64: the slice as_bytes returned
    parsed,    \* id64: what try_from returned
    idpc       \* id64: which conversions have run

vars == <<mode, profile, pc, step, req, msg, timeout, toPeer, inbox, peerUp,
          pending, events, event, arrived, ticket, closed, result, exit,
          errmsg, okPrinted, logged, xch, hist,
          endian, id, string, bytes, parsed, idpc>>

idVars == <<endian, id, string, bytes, parsed, idpc>>

clientVars == <<pc, step, req, msg, timeout, result, exit, errmsg, okPrinted,
                logged, event, ticket>>
peerVars == <<peerUp, pending>>
watchEnvVars == <<events, arrived, closed>>

\* ------------------------------------------------------------------ helpers
Sat(n) == IF n < SendCap THEN n + 1 ELSE SendCap

\* a bounded socket buffer: a datagram that does not fit is dropped
Enqueue(q, d) == IF Len(q) < QueueCap THEN Append(q, d) ELSE q

\* the history of an exchange that has not sent anything yet
NewExchange == [sends |-> 0, requests |-> {}, timeouts |-> 0, recvd |-> <<>>,
                afterWait |-> 0]

\* ------------------------------------------------------------- wire format
\* A response datagram: the JSON tag and, when the peer attaches one, a payload.
Wire(tag, payload) == [tag |-> tag, payload |-> payload]

WireBodies == {Wire("Success", ""), Wire("Error", ""), Wire("Wait", ""),
               Wire("Error", "busy"), Wire("junk", "")}

\* history: a Wait response has been read in the exchange
GotWait(x) == \E i \in 1 .. Len(x.recvd) : x.recvd[i] = Wire("Wait", "")

\* error messages, as the set of words they contain
UnityError == {"Unity-side", "error"}
UnexpectedWait == {"Unexpected", "Wait", "response"}
IoError == {"io", "error"}
NotifyError == {"notify", "error"}
RecvError == {"receiving", "on", "a", "closed", "channel"}
NoAssetsDir == {"Assets", "dir", "not", "found"}
\* serde_json's message quotes the value it did not expect
SerdeError(w) == {"invalid", "type"} \cup (IF w.payload = "" THEN {w.tag} ELSE {w.payload})

Ok == [ok |-> TRUE, msg |-> {}]
Err(m) == [ok |-> FALSE, msg |-> m]

\* serde_json::to_vec(request): the JSON object of the request, field by field
ToVec(request) == <<request.id, request.cmd>>

\* serde_json::from_slice::<Response>: only the three bare tags are a Response
FromSlice(w) ==
    IF w.tag \in Responses /\ w.payload = ""
    THEN [ok |-> TRUE, val |-> w.tag]
    ELSE [ok |-> FALSE, val |-> SerdeError(w)]

\* --------------------------------------------- send_reliable_blocking: matches
\* What the retry loop does with a decoded response: "return" a result,
\* "final" (break out of the loop to the final wait), "retry" (go round the
\* loop again, which no arm of the code's match does).
\* Faulty variant: Wait is treated like a timeout.
OnResponse_WaitResends(r) ==
    CASE r = "Success" -> [next |-> "return", result |-> Ok]
      [] r = "Wait" -> [next |-> "retry", result |-> NoResult]
      [] r = "Error" -> [next |-> "return", result |-> Err(UnityError)]

\* Faulty variant: a peer error is retried.
OnResponse_ErrorRetries(r) ==
    CASE r = "Success" -> [next |-> "return", result |-> Ok]
      [] r = "Wait" -> [next |-> "final", result |-> NoResult]
      [] r = "Error" -> [next |-> "retry", result |-> NoResult]

OnResponse(r) ==
    CASE r = "Success" -> [next |-> "return", result |-> Ok]
      [] r = "Wait" -> [next |-> "final", result |-> NoResult]
      [] r = "Error" -> [next |-> "return", result |-> Err(UnityError)]

\* What the final wait does with the one response it reads: "return" a
\* result, "final" (keep waiting, which no arm of the code's match does).
\* Faulty variant: a second Wait keeps waiting.
OnFinalResponse_WaitAgain(r) ==
    CASE r = "Success" -> [next |-> "return", result |-> Ok]
      [] r = "Error" -> [next |-> "return", result |-> Err(UnityError)]
      [] r = "Wait" -> [next |-> "final", result |-> NoResult]

OnFinalResponse(r) ==
    CASE r = "Success" -> [next |-> "return", result |-> Ok]
      [] r = "Error" -> [next |-> "return", result |-> Err(UnityError)]
      [] r = "Wait" -> [next |-> "return", result |-> Err(UnexpectedWait)]

\* ----------------------------------------------------------------- main
\* the commands a one-shot subcommand issues, in order
CommandsOf(m) ==
    CASE m = "play" -> <<"Play", "CheckAlive">>
      [] m = "stop" -> <<"Stop">>
      [] m = "refresh" -> <<"Refresh", "CheckAlive">>
      [] m = "build" -> <<"Build">>
      [] OTHER -> <<>>

\* the ? operator: an Err leaves the calling function
\* Faulty variant: the result is dropped.
Try_Ignore(res) == FALSE

Try(res) == ~res.ok

\* the watch loop's match on a debounced event
\* Faulty variant: a permission change counts as a change of the file.
Classify_ChmodRefreshes(e) ==
    CASE e \in {"Create", "Write", "Remove", "Rename", "Chmod"} -> "refresh"
      [] e \in {"NoticeWrite", "NoticeRemove", "Rescan"} -> "skip"
      [] e = "Error" -> "fail"

Classify(e) ==
    CASE e \in {"Create", "Write", "Remove", "Rename"} -> "refresh"
      [] e \in {"NoticeWrite", "NoticeRemove", "Chmod", "Rescan"} -> "skip"
      [] e = "Error" -> "fail"

\* the refresh closure: an error of the exchange is logged, not returned
\* Faulty variant: the error leaves watch.
RefreshPropagates_Err(res) == ~res.ok

RefreshPropagates(res) == FALSE

\* ------------------------------------------------------- the event queue
\* Events in the channel are told apart by their arrival number, counted
\* modulo TicketMod, which is large enough to keep the waiting ones distinct.
TicketMod == EventCap + 1

\* the arrival number of the oldest event waiting in the channel
Oldest == (arrived + TicketMod + 1 - events) % TicketMod

\* the conversions of Id64 are not part of a run of the command client
NoId == <<>>
NoParse == [ok |-> FALSE, val |-> "none"]

\* ------------------------------------------------------------------- Init
\* the client before main has done anything
ClientIdle ==
    /\ pc = "main"
    /\ step = 1
    /\ req = NoReq
    /\ msg = ToVec(NoReq)
    /\ timeout = "unset"
    /\ toPeer = <<>>
    /\ inbox = <<>>
    /\ pending = {}
    /\ events = 0
    /\ event = "none"
    /\ arrived = 0
    /\ ticket = 0
    /\ closed = FALSE
    /\ result = NoResult
    /\ exit = "running"
    /\ errmsg = {}
    /\ okPrinted = FALSE
    /\ logged = FALSE
    /\ xch = NewExchange
    /\ hist = <<>>

Init ==
    /\ mode \in Modes
    /\ profile \in Profiles
    /\ peerUp \in BOOLEAN
    /\ ClientIdle
    /\ endian = "none"
    /\ id = NoId
    /\ string = <<>>
    /\ bytes = <<>>
    /\ parsed = NoParse
    /\ idpc = "off"

\* --------------------------------------------------- single_command (client)
\* Id64::random(): any 64-bit value; the model draws from NumIds of them
Ids == 0 .. (NumIds - 1)

\* single_command(command) up to the first send_to: mint a random id, set the
\* bounded read timeout, serialize the request.
\* Faulty variant: the read timeout is set only while the socket has none yet.
Call_SetsTimeoutOnce(command) ==
    \E i \in Ids :
        /\ req' = [id |-> i, cmd |-> command]
        /\ msg' = ToVec([id |-> i, cmd |-> command])
        /\ timeout' = IF timeout = "unset" THEN "TIMEOUT" ELSE timeout
        /\ xch' = NewExchange
        /\ result' = NoResult
        /\ pc' = "send"

Call(command) ==
    \E i \in Ids :
        /\ req' = [id |-> i, cmd |-> command]
        /\ msg' = ToVec([id |-> i, cmd |-> command])
        /\ timeout' = "TIMEOUT"
        /\ xch' = NewExchange
        /\ result' = NoResult
        /\ pc' = "send"

\* send_reliable_blocking returns res to its caller
Return(res) ==
    /\ result' = res
    /\ pc' = "returned"

\* SOCKET.send_to(&msg, UNITY_ADDR) succeeds: the serialized request goes out
\* Faulty variant: every send serializes a request with a new random id.
SendTo_Remint ==
    /\ pc = "send"
    /\ \E i \in Ids :
        /\ toPeer' = Enqueue(toPeer, ToVec([id |-> i, cmd |-> req.cmd]))
        /\ xch' = [xch EXCEPT !.sends = Sat(@),
                              !.requests = @ \cup {ToVec([id |-> i, cmd |-> req.cmd])},
                              !.afterWait = IF GotWait(xch) THEN Sat(@) ELSE @]
    /\ pc' = "recv"
    /\ UNCHANGED <<idVars, mode, profile, step, req, msg, timeout, inbox, peerVars, watchEnvVars,
                   result, exit, errmsg, okPrinted, logged, event, ticket, hist>>

SendTo ==
    /\ pc = "send"
    /\ toPeer' = Enqueue(toPeer, msg)
    /\ xch' = [xch EXCEPT !.sends = Sat(@),
                          !.requests = @ \cup {msg},
                          !.afterWait = IF GotWait(xch) THEN Sat(@) ELSE @]
    /\ pc' = "recv"
    /\ UNCHANGED <<idVars, mode, profile, step, req, msg, timeout, inbox, peerVars, watchEnvVars,
                   result, exit, errmsg, okPrinted, logged, event, ticket, hist>>

\* send_to fails: the error is returned
SendFail ==
    /\ pc = "send"
    /\ Return(Err(IoError))
    /\ UNCHANGED <<idVars, mode, profile, step, req, msg, timeout, toPeer, inbox, peerVars,
                   watchEnvVars, exit, errmsg, okPrinted, logged, event, ticket, xch, hist>>

\* recv_from in the retry loop returns a datagram: decode it and match
RecvResponse ==
    /\ pc = "recv"
    /\ inbox # <<>>
    /\ inbox' = Tail(inbox)
    /\ LET d == FromSlice(Head(inbox).wire)
           o == OnResponse(d.val)
           x == [xch EXCEPT !.recvd = Append(@, Head(inbox).wire)]
       IN  IF ~d.ok
           THEN /\ Return(Err(d.val))
                /\ xch' = x
                /\ UNCHANGED timeout
           ELSE CASE o.next = "return" ->
                       /\ Return(o.result)
                       /\ xch' = x
                       /\ UNCHANGED timeout
                  [] o.next = "final" ->
                       \* break; then set_read_timeout(None) and block in recv_from
                       /\ pc' = "final_recv"
                       /\ timeout' = "None"
                       /\ xch' = x
                       /\ UNCHANGED result
                  [] o.next = "retry" ->
                       /\ pc' = "send"
                       /\ xch' = x
                       /\ UNCHANGED <<result, timeout>>
    /\ UNCHANGED <<idVars, mode, profile, step, req, msg, toPeer, peerVars, watchEnvVars, exit,
                   errmsg, okPrinted, logged, event, ticket, hist>>

\* recv_from in the retry loop times out (WouldBlock): go round the loop again
\* Faulty variant: the timeout is returned as an error.
RecvTimeout_GivesUp ==
    /\ pc = "recv"
    /\ inbox = <<>>
    /\ timeout = "TIMEOUT"
    /\ Return(Err({"timed", "out"}))
    /\ xch' = [xch EXCEPT !.timeouts = Sat(@)]
    /\ UNCHANGED <<idVars, mode, profile, step, req, msg, timeout, toPeer, inbox, peerVars,
                   watchEnvVars, exit, errmsg, okPrinted, logged, event, ticket, hist>>

RecvTimeout ==
    /\ pc = "recv"
    /\ inbox = <<>>
    /\ timeout = "TIMEOUT"
    /\ pc' = "send"
    /\ xch' = [xch EXCEPT !.timeouts = Sat(@)]
    /\ UNCHANGED <<idVars, mode, profile, step, req, msg, timeout, toPeer, inbox, peerVars,
                   watchEnvVars, result, exit, errmsg, okPrinted, logged, event, ticket, hist>>

\* recv_from fails with another error kind: the error is returned
\* Faulty variant: in the retry loop every receive error is taken for a timeout.
RecvFail_Resends ==
    /\ pc \in {"recv", "final_recv"}
    /\ IF pc = "recv"
       THEN pc' = "send" /\ UNCHANGED result
       ELSE Return(Err(IoError))
    /\ UNCHANGED <<idVars, mode, profile, step, req, msg, timeout, toPeer, inbox, peerVars,
                   watchEnvVars, exit, errmsg, okPrinted, logged, event, ticket, xch, hist>>

RecvFail ==
    /\ pc \in {"recv", "final_recv"}
    /\ Return(Err(IoError))
    /\ UNCHANGED <<idVars, mode, profile, step, req, msg, timeout, toPeer, inbox, peerVars,
                   watchEnvVars, exit, errmsg, okPrinted, logged, event, ticket, xch, hist>>

\* the final recv_from returns a datagram: decode it and match
RecvFinal ==
    /\ pc = "final_recv"
    /\ inbox # <<>>
    /\ inbox' = Tail(inbox)
    /\ LET d == FromSlice(Head(inbox).wire)
           o == OnFinalResponse(d.val)
       IN  IF ~d.ok
           THEN Return(Err(d.val))
           ELSE CASE o.next = "return" -> Return(o.result)
                  [] o.next = "final" -> UNCHANGED <<pc, result>>
    /\ xch' = [xch EXCEPT !.recvd = Append(@, Head(inbox).wire)]
    /\ UNCHANGED <<idVars, mode, profile, step, req, msg, timeout, toPeer, peerVars, watchEnvVars,
                   exit, errmsg, okPrinted, logged, event, ticket, hist>>

\* ------------------------------------------------------------------- main
\* main calls single_command for the next command of a one-shot subcommand
MainCall ==
    /\ pc = "main"
    /\ mode # "watch"
    /\ step <= Len(CommandsOf(mode))
    /\ Call(CommandsOf(mode)[step])
    /\ UNCHANGED <<idVars, mode, profile, step, toPeer, inbox, peerVars, watchEnvVars, exit,
                   errmsg, okPrinted, logged, event, ticket, hist>>

\* single_command(..)? in main: an error ends the process non-zero; after the
\* last command main prints "ok" and returns Ok(())
MainReturn ==
    /\ pc = "returned"
    /\ mode # "watch"
    /\ IF Try(result)
       THEN /\ exit' = "err"
            /\ errmsg' = result.msg
            /\ pc' = "exit"
            /\ UNCHANGED <<step, okPrinted>>
       ELSE IF step = Len(CommandsOf(mode))
            THEN /\ okPrinted' = TRUE
                 /\ exit' = "ok"
                 /\ pc' = "exit"
                 /\ UNCHANGED <<step, errmsg>>
            ELSE /\ step' = step + 1
                 /\ pc' = "main"
                 /\ UNCHANGED <<exit, errmsg, okPrinted>>
    /\ hist' = Append(hist, [cmd |-> req.cmd, ok |-> result.ok])
    /\ req' = NoReq
    /\ msg' = ToVec(NoReq)
    /\ result' = NoResult
    /\ xch' = NewExchange
    /\ UNCHANGED <<idVars, mode, profile, timeout, toPeer, inbox, peerVars, watchEnvVars, logged,
                   event, ticket>>

\* ------------------------------------------------------------------ watch
\* watch up to its loop: the Assets directory check and the watcher's start
WatchStart ==
    /\ pc = "main"
    /\ mode = "watch"
    /\ \E isDir \in BOOLEAN :
        IF isDir
        THEN /\ pc' = "watch_loop"
             /\ UNCHANGED <<exit, errmsg>>
        ELSE /\ pc' = "exit"
             /\ exit' = "err"
             /\ errmsg' = NoAssetsDir
    /\ UNCHANGED <<idVars, mode, profile, step, req, msg, timeout, toPeer, inbox, peerVars,
                   watchEnvVars, result, okPrinted, logged, event, ticket, xch, hist>>

\* rx.recv()? returns the next event: the channel hands out the oldest one
\* Faulty variant: events are taken while the exchange of the previous one
\* still waits for its response.
WatchRecv_DuringExchange ==
    /\ pc \in {"watch_loop", "recv"}
    /\ events > 0
    /\ events' = events - 1
    /\ ticket' = Oldest
    /\ \E e \in EventKinds : event' = e
    /\ pc' = "match"
    /\ UNCHANGED <<idVars, mode, profile, step, req, msg, timeout, toPeer, inbox, peerVars,
                   arrived, closed, result, exit, errmsg, okPrinted, logged, xch, hist>>

WatchRecv ==
    /\ pc = "watch_loop"
    /\ events > 0
    /\ events' = events - 1
    /\ ticket' = Oldest
    /\ \E e \in EventKinds : event' = e
    /\ pc' = "match"
    /\ UNCHANGED <<idVars, mode, profile, step, req, msg, timeout, toPeer, inbox, peerVars,
                   arrived, closed, result, exit, errmsg, okPrinted, logged, xch, hist>>

\* the arm of the match the event selects
WatchMatch ==
    /\ pc = "match"
    /\ event' = "none"
    /\ CASE Classify(event) = "refresh" ->
              \* refresh(): single_command(Command::BackgroundRefresh)
              /\ Call("BackgroundRefresh")
              /\ logged' = FALSE
              /\ UNCHANGED <<exit, errmsg>>
         [] Classify(event) = "skip" ->
              /\ pc' = "watch_loop"
              /\ UNCHANGED <<req, msg, timeout, xch, result, exit, errmsg, logged>>
         [] Classify(event) = "fail" ->
              /\ pc' = "exit"
              /\ exit' = "err"
              /\ errmsg' = NotifyError
              /\ UNCHANGED <<req, msg, timeout, xch, result, logged>>
    /\ UNCHANGED <<idVars, mode, profile, step, toPeer, inbox, peerVars, watchEnvVars, okPrinted,
                   ticket, hist>>

\* rx.recv()? on an empty queue whose sender is gone: RecvError leaves watch
WatchRecvClosed ==
    /\ pc = "watch_loop"
    /\ events = 0
    /\ closed
    /\ pc' = "exit"
    /\ exit' = "err"
    /\ errmsg' = RecvError
    /\ UNCHANGED <<idVars, mode, profile, step, req, msg, timeout, toPeer, inbox, peerVars,
                   watchEnvVars, result, okPrinted, logged, event, ticket, xch, hist>>

\* the refresh closure after single_command returned: log an error, go on
WatchReturn ==
    /\ pc = "returned"
    /\ mode = "watch"
    /\ IF RefreshPropagates(result)
       THEN /\ pc' = "exit"
            /\ exit' = "err"
            /\ errmsg' = result.msg
            /\ UNCHANGED logged
       ELSE /\ pc' = "watch_loop"
            /\ logged' = ~result.ok
            /\ UNCHANGED <<exit, errmsg>>
    /\ req' = NoReq
    /\ msg' = ToVec(NoReq)
    /\ result' = NoResult
    /\ xch' = NewExchange
    /\ UNCHANGED <<idVars, mode, profile, step, timeout, toPeer, inbox, peerVars, watchEnvVars,
                   okPrinted, event, ticket, hist>>

\* ------------------------------------------------- environment: notify source
\* the watcher's thread delivers a debounced event
FsEvent ==
    /\ mode = "watch"
    /\ pc \notin {"main", "exit"}
    /\ ~closed
    /\ events < EventCap
    /\ events' = events + 1
    /\ arrived' = (arrived + 1) % TicketMod
    /\ UNCHANGED <<idVars, mode, profile, clientVars, toPeer, inbox, peerVars, closed, xch, hist>>

\* the watcher's thread ends and drops the sender
QueueClose ==
    /\ mode = "watch"
    /\ pc \notin {"main", "exit"}
    /\ ~closed
    /\ closed' = TRUE
    /\ UNCHANGED <<idVars, mode, profile, clientVars, toPeer, inbox, peerVars, events,
                   arrived, xch, hist>>

\* ------------------------------------------------------- environment: peer
\* the responses a peer of this profile may give to a request it receives
Replies(p, d) ==
    CASE p = "any" -> WireBodies \ {Wire("Error", "busy")}
      [] p = "success" -> {Wire("Success", "")}
      [] p \in {"wait_success", "wait_restart"} ->
            IF d[2] = "CheckAlive" THEN {Wire("Success", "")} ELSE {Wire("Wait", "")}
      [] p = "error_busy" -> {Wire("Error", ""), Wire("Error", "busy")}

\* the final responses a peer of this profile may give after a Wait
Finals(p) ==
    CASE p = "any" -> WireBodies \ {Wire("Error", "busy")}
      [] p = "wait_restart" -> {}
      [] OTHER -> {Wire("Success", "")}

\* whether a peer of this profile may restart now
MayCrash(p) ==
    CASE p = "any" -> TRUE
      [] p = "wait_restart" -> pending # {}
      [] OTHER -> FALSE

\* the peer receives a request and answers it
PeerReceive ==
    /\ peerUp
    /\ toPeer # <<>>
    /\ toPeer' = Tail(toPeer)
    /\ \E w \in Replies(profile, Head(toPeer)) :
        /\ inbox' = Enqueue(inbox, [wire |-> w, re |-> Head(toPeer)[2]])
        /\ pending' = IF w.tag = "Wait" THEN pending \cup {Head(toPeer)[2]} ELSE pending
    /\ UNCHANGED <<idVars, mode, profile, clientVars, peerUp, watchEnvVars, xch, hist>>

\* a request is lost: nobody listens, or the peer ignores it
PeerIgnore ==
    /\ toPeer # <<>>
    /\ ~peerUp \/ profile = "any"
    /\ toPeer' = Tail(toPeer)
    /\ UNCHANGED <<idVars, mode, profile, clientVars, inbox, peerVars, watchEnvVars, xch, hist>>

\* the peer finishes a request it answered Wait and sends the final response
PeerFinal ==
    /\ peerUp
    /\ \E d \in pending, w \in Finals(profile) :
        /\ inbox' = Enqueue(inbox, [wire |-> w, re |-> d])
        /\ pending' = pending \ {d}
    /\ UNCHANGED <<idVars, mode, profile, clientVars, toPeer, peerUp, watchEnvVars, xch, hist>>

\* the peer restarts: what it was working on is forgotten
PeerCrash ==
    /\ peerUp
    /\ MayCrash(profile)
    /\ peerUp' = FALSE
    /\ pending' = {}
    /\ UNCHANGED <<idVars, mode, profile, clientVars, toPeer, inbox, watchEnvVars, xch, hist>>

\* the restarted peer listens again
PeerUp ==
    /\ ~peerUp
    /\ peerUp' = TRUE
    /\ UNCHANGED <<idVars, mode, profile, clientVars, toPeer, inbox, pending, watchEnvVars, xch,
                   hist>>

\* ------------------------------------------------------------ specification
Client ==
    \/ MainCall
    \/ MainReturn
    \/ WatchStart
    \/ WatchRecv
    \/ WatchMatch
    \/ WatchRecvClosed
    \/ WatchReturn
    \/ SendTo
    \/ RecvResponse
    \/ RecvTimeout
    \/ RecvFinal

Next ==
    \/ MainCall
    \/ MainReturn
    \/ WatchStart
    \/ WatchRecv
    \/ WatchMatch
    \/ WatchRecvClosed
    \/ WatchReturn
    \/ SendTo
    \/ SendFail
    \/ RecvResponse
    \/ RecvTimeout
    \/ RecvFail
    \/ RecvFinal
    \/ FsEvent
    \/ QueueClose
    \/ PeerReceive
    \/ PeerIgnore
    \/ PeerFinal
    \/ PeerCrash
    \/ PeerUp

Spec == Init /\ [][Next]_vars

\* The runs against the scripted peers, under the scheduling the claims about
\* them assume: the client thread runs whenever it is not blocked; an up peer
\* answers what it received and finishes what it promised; a restarting peer
\* comes back; the scripted restarting peer does restart.
ScriptedInit == Init /\ profile # "any"

FairSpec ==
    /\ ScriptedInit
    /\ [][Next]_vars
    /\ WF_vars(Client)
    /\ WF_vars(PeerReceive)
    /\ WF_vars(PeerFinal)
    /\ WF_vars(PeerUp)
    /\ WF_vars(PeerCrash /\ profile = "wait_restart")

\* --------------------------------------------------------------- id64.rs
\* Id64 wraps a u64. A u64 is written as its 8 base-256 digits, most
\* significant first; the conversions below are those of id64.rs on that form.
Endians == {"little", "big"}

Reverse(b) == [i \in 1 .. Len(b) |-> b[Len(b) + 1 - i]]

\* u64::to_le_bytes and u64::from_le_bytes: least significant digit first
ToLeBytes(v) == Reverse(v)
FromLeBytes(b) == Reverse(b)

\* as_bytes: the 8 bytes of the u64 as they lie in memory, which is the byte
\* order of the target
AsBytes(v, e) == IF e = "little" THEN Reverse(v) ELSE v

\* Into<[u8; 8]> and From<[u8; 8]>
IntoBytes(v) == ToLeBytes(v)
FromBytes(b) == FromLeBytes(b)

\* base64_url: RFC 4648 base64 with the URL-safe alphabet and no padding
Alphabet ==
    <<"A", "B", "C", "D", "E", "F", "G", "H", "I", "J", "K", "L", "M",
      "N", "O", "P", "Q", "R", "S", "T", "U", "V", "W", "X", "Y", "Z",
      "a", "b", "c", "d", "e", "f", "g", "h", "i", "j", "k", "l", "m",
      "n", "o", "p", "q", "r", "s", "t", "u", "v", "w", "x", "y", "z",
      "0", "1", "2", "3", "4", "5", "6", "7", "8", "9", "-", "_">>

InAlphabet(c) == \E i \in 1 .. 64 : Alphabet[i] = c
Sextet(c) == CHOOSE n \in 0 .. 63 : Alphabet[n + 1] = c

RECURSIVE Base64Encode(_)
Base64Encode(b) ==
    CASE Len(b) = 0 -> <<>>
      [] Len(b) = 1 ->
            <<Alphabet[(b[1] \div 4) + 1], Alphabet[(b[1] % 4) * 16 + 1]>>
      [] Len(b) = 2 ->
            <<Alphabet[(b[1] \div 4) + 1],
              Alphabet[(b[1] % 4) * 16 + (b[2] \div 16) + 1],
              Alphabet[(b[2] % 16) * 4 + 1]>>
      [] OTHER ->
            <<Alphabet[(b[1] \div 4) + 1],
              Alphabet[(b[1] % 4) * 16 + (b[2] \div 16) + 1],
              Alphabet[(b[2] % 16) * 4 + (b[3] \div 64) + 1],
              Alphabet[(b[3] % 64) + 1]>> \o Base64Encode(SubSeq(b, 4, Len(b)))

\* the bytes a sequence of sextets stands for; "bad" when the last group is a
\* single sextet or leaves bits that are not zero
RECURSIVE SextetsToBytes(_)
SextetsToBytes(s) ==
    CASE Len(s) = 0 -> [ok |-> TRUE, val |-> <<>>]
      [] Len(s) = 1 -> [ok |-> FALSE, val |-> <<>>]
      [] Len(s) = 2 ->
            [ok |-> s[2] % 16 = 0, val |-> <<s[1] * 4 + (s[2] \div 16)>>]
      [] Len(s) = 3 ->
            [ok |-> s[3] % 4 = 0,
             val |-> <<s[1] * 4 + (s[2] \div 16), (s[2] % 16) * 16 + (s[3] \div 4)>>]
      [] OTHER ->
            LET rest == SextetsToBytes(SubSeq(s, 5, Len(s)))
            IN  [ok |-> rest.ok,
                 val |-> <<s[1] * 4 + (s[2] \div 16),
                           (s[2] % 16) * 16 + (s[3] \div 4),
                           (s[3] % 4) * 64 + s[4]>> \o rest.val]

Base64Decode(t) ==
    IF \E i \in 1 .. Len(t) : ~InAlphabet(t[i])
    THEN [ok |-> FALSE, val |-> <<>>]
    ELSE SextetsToBytes([i \in 1 .. Len(t) |-> Sextet(t[i])])

\* Into<String> and Display: the text form of the id
IntoString(v, e) == Base64Encode(AsBytes(v, e))
Display(v, e) == Base64Encode(AsBytes(v, e))

\* TryFromStrError
Base64DecodeError == "base64 decode error"
TryFromSliceError == "Invalid length"

\* TryFrom<&str>: decode, convert the bytes to [u8; 8], build the id
\* Faulty variant: bytes past the eighth are cut off.
TryFrom_Truncates(t) ==
    LET decoded == Base64Decode(t)
    IN  IF ~decoded.ok THEN [ok |-> FALSE, val |-> Base64DecodeError]
        ELSE IF Len(decoded.val) < 8 THEN [ok |-> FALSE, val |-> TryFromSliceError]
        ELSE [ok |-> TRUE, val |-> FromBytes(SubSeq(decoded.val, 1, 8))]

TryFrom(t) ==
    LET decoded == Base64Decode(t)
    IN  IF ~decoded.ok THEN [ok |-> FALSE, val |-> Base64DecodeError]
        ELSE IF Len(decoded.val) # 8 THEN [ok |-> FALSE, val |-> TryFromSliceError]
        ELSE [ok |-> TRUE, val |-> FromBytes(decoded.val)]

\* the ids and the texts the conversions are applied to
SampleBytes == {0, 1, 255}
SampleIds == [1 .. 8 -> SampleBytes]
\* one character of the alphabet and one outside it
TextChars == {"A", "/"}
SampleTexts == UNION {[1 .. n -> TextChars] : n \in 0 .. MaxTextLen}

\* the conversions start from an id, or from a text that came from outside
IdInit ==
    /\ mode = "play"
    /\ profile = "success"
    /\ peerUp = TRUE
    /\ ClientIdle
    /\ endian \in Endians
    /\ bytes = <<>>
    /\ parsed = NoParse
    /\ \/ /\ idpc = "id"
          /\ id \in SampleIds
          /\ string = <<>>
       \/ /\ idpc = "string"
          /\ id = NoId
          /\ string \in SampleTexts

mainVars == <<mode, profile, clientVars, toPeer, inbox, peerVars, watchEnvVars, xch, hist>>

\* the id is turned into its text form, by Into<String> or by Display
IdIntoString ==
    /\ idpc = "id"
    /\ bytes' = AsBytes(id, endian)
    /\ \E display \in BOOLEAN :
        string' = IF display THEN Display(id, endian) ELSE IntoString(id, endian)
    /\ idpc' = "string"
    /\ UNCHANGED <<mainVars, endian, id, parsed>>

\* the text is turned into an id by TryFrom<&str>
IdTryFrom ==
    /\ idpc = "string"
    /\ parsed' = TryFrom(string)
    /\ idpc' = "parsed"
    /\ UNCHANGED <<mainVars, endian, id, string, bytes>>

IdNext ==
    \/ IdIntoString
    \/ IdTryFrom

IdSpec == IdInit /\ [][IdNext]_vars

\* ------------------------------------------------------------------ claims
\* the client is inside send_reliable_blocking
InExchange == pc \in {"send", "recv", "final_recv"}

\* the decoded tag of a response the exchange read, "undecodable" otherwise
Decoded(w) == IF FromSlice(w).ok THEN FromSlice(w).val ELSE "undecodable"

\* sends and timeouts of an exchange that has sent: one send, and one more per timeout
OneSendPerTimeout(x) ==
    x.sends = (IF x.timeouts < SendCap THEN x.timeouts + 1 ELSE SendCap)

\* C1: every datagram sent in an exchange, the first send and every resend
\* after a timeout, is the one serialized Request of that exchange: same
\* correlation id, same command.
C1_SameRequestOnEveryResend ==
    (InExchange \/ pc = "returned") =>
        /\ msg = ToVec(req)
        /\ xch.requests \subseteq {msg}

C1_Witness ==
    /\ pc = "recv"
    /\ xch.timeouts = SendCap
    /\ xch.sends = SendCap
    /\ xch.requests = {ToVec(req)}

\* C2: once a Wait has been read in an exchange nothing more is sent in it, and
\* an exchange that read Wait and then Success with no timeout before returned
\* Ok after exactly one send.
C2_NoSendAfterWait ==
    /\ GotWait(xch) => (xch.afterWait = 0 /\ pc \in {"final_recv", "returned"})
    /\ ( /\ pc = "returned"
         /\ xch.recvd = <<Wire("Wait", ""), Wire("Success", "")>>
         /\ xch.timeouts = 0 )
       => (result = Ok /\ xch.sends = 1)

C2_Witness ==
    /\ pc = "returned"
    /\ xch.recvd = <<Wire("Wait", ""), Wire("Success", "")>>
    /\ xch.timeouts = 0
    /\ xch.sends = 1
    /\ result = Ok

\* C3: against a peer that is unreachable for some time and then answers every
\* request with Success, an exchange that has started eventually returns Ok;
\* only a local socket I/O failure, never a timeout, ends it otherwise.
C3_RetriesUntilAnswered ==
    (profile = "success" /\ pc = "send")
        ~> (pc = "returned" /\ (result = Ok \/ result = Err(IoError)))

C3_Witness ==
    /\ profile = "success"
    /\ pc = "returned"
    /\ result = Ok
    /\ xch.timeouts = SendCap
    /\ xch.sends = SendCap

\* C4: refresh against a peer that answers Refresh with Wait, restarts without
\* a final response and later answers CheckAlive with Success: once the Wait
\* to the one Refresh datagram has been read, the refresh operation eventually
\* completes successfully (a local socket I/O failure aside).
C4_RefreshSurvivesRestart ==
    ( /\ mode = "refresh"
      /\ profile = "wait_restart"
      /\ pc = "final_recv"
      /\ xch.sends = 1 )
        ~> (exit = "ok" \/ errmsg = IoError)

\* C5: watch against a peer that answers BackgroundRefresh with Wait and then
\* restarts: the loop does not stall, every change event that waits in the
\* queue is eventually received (unless the watch has ended or the
\* notification source has gone).
C5_WatchSurvivesRestart ==
    \A n \in 0 .. (TicketMod - 1) :
        (mode = "watch" /\ profile = "wait_restart" /\ events > 0 /\ Oldest = n)
            ~> (ticket = n \/ exit # "running" \/ closed)

\* C6: play and refresh issue their first command and then CheckAlive; a
\* CheckAlive request exists only after the first exchange returned Ok; an
\* error of the first exchange ends the process non-zero with no "ok" and no
\* second exchange; "ok" is printed only after both exchanges returned Ok.
C6_CheckAliveOnlyAfterOk ==
    mode \in {"play", "refresh"} =>
        LET first == CommandsOf(mode)[1]
            firstOk == [cmd |-> first, ok |-> TRUE]
        IN  /\ (step = 1 /\ req # NoReq) => (req.cmd = first /\ hist = <<>>)
            /\ ( \/ req.cmd = "CheckAlive"
                 \/ \E i \in 1 .. Len(toPeer) : toPeer[i][2] = "CheckAlive"
                 \/ \E i \in 1 .. Len(inbox) : inbox[i].re = "CheckAlive"
                 \/ "CheckAlive" \in pending )
               => (step = 2 /\ Len(hist) >= 1 /\ hist[1] = firstOk)
            /\ (Len(hist) >= 1 /\ ~hist[1].ok)
               => ( /\ hist = <<[cmd |-> first, ok |-> FALSE]>>
                    /\ step = 1
                    /\ exit = "err"
                    /\ ~okPrinted
                    /\ req = NoReq )
            /\ (okPrinted \/ exit = "ok")
               => ( /\ okPrinted
                    /\ exit = "ok"
                    /\ hist = <<firstOk, [cmd |-> "CheckAlive", ok |-> TRUE]>> )

C6_Witness ==
    /\ mode = "refresh"
    /\ okPrinted
    /\ exit = "ok"
    /\ hist = <<[cmd |-> "Refresh", ok |-> TRUE], [cmd |-> "CheckAlive", ok |-> TRUE]>>

C8_PeerErrorIsTerminal ==
    \A i \in 1 .. Len(xch.recvd) :
        Decoded(xch.recvd[i]) = "Error" =>
            /\ i = Len(xch.recvd)
            /\ pc = "returned"
            /\ result = Err(UnityError)
            /\ OneSendPerTimeout(xch)

C8_Witness ==
    /\ pc = "returned"
    /\ xch.recvd = <<Wire("Error", "")>>
    /\ xch.timeouts = 1
    /\ xch.sends = 2
    /\ result = Err(UnityError)

\* C9: stop against a peer that answers Error("busy"): once a response has been
\* read, the exchange has failed with a message that contains "busy", after
\* one send per timeout, and the process ends non-zero with that message.
C9_StopReportsBusy ==
    (mode = "stop" /\ profile = "error_busy") =>
        /\ (pc = "returned" /\ xch.recvd # <<>>) =>
              (~result.ok /\ "busy" \in result.msg /\ OneSendPerTimeout(xch))
        /\ (exit # "running" /\ errmsg # IoError) =>
              (exit = "err" /\ ~okPrinted /\ "busy" \in errmsg)

C11_EventClassification ==
    /\ [](mode = "watch" =>
            /\ req.cmd \in {"none", "BackgroundRefresh"}
            /\ \A i \in 1 .. Len(toPeer) : toPeer[i][2] = "BackgroundRefresh")
    /\ [][(mode = "watch" /\ pc = "match" /\ pc' # pc) =>
            /\ event \in {"Create", "Write", "Remove", "Rename"} =>
                  /\ pc' = "send"
                  /\ req'.cmd = "BackgroundRefresh"
                  /\ xch' = NewExchange
                  /\ toPeer' = toPeer
            /\ event \in {"NoticeWrite", "NoticeRemove", "Chmod", "Rescan"} =>
                  /\ pc' = "watch_loop"
                  /\ req' = NoReq
                  /\ xch' = NewExchange
                  /\ toPeer' = toPeer]_vars
    /\ [][(mode = "watch" /\ req' # req /\ req' # NoReq) =>
            /\ pc = "match"
            /\ event \in {"Create", "Write", "Remove", "Rename"}
            /\ req = NoReq]_vars
    /\ [][(mode = "watch" /\ event' # event /\ event' # "none") =>
            (pc = "watch_loop" /\ event = "none" /\ req = NoReq /\ events' = events - 1)]_vars

C11_Witness ==
    /\ mode = "watch"
    /\ pc = "recv"
    /\ req.cmd = "BackgroundRefresh"
    /\ xch.sends = 1
    /\ xch.timeouts = 0
    /\ toPeer = <<msg>>
    /\ events = EventCap

\* C13: at most one request is outstanding. A request is made only when
\* there is none and the result of the previous exchange has been taken; it is
\* dropped only after its exchange returned Ok or an error; every datagram
\* sent is that of the current request; the one-shot subcommands start their
\* n-th exchange after n-1 have returned. In watch, events that arrive while
\* an event is being handled wait in the queue, and events are taken one at a
\* time at the top of the loop, in arrival order.
C13_OneRequestOutstanding ==
    /\ [](mode # "watch" /\ req # NoReq => Len(hist) = step - 1)
    /\ [][(req' # req) =>
            \/ /\ req = NoReq
               /\ pc \in {"main", "match"}
               /\ result = NoResult
               /\ pc' = "send"
            \/ /\ req' = NoReq
               /\ pc = "returned"
               /\ result = Ok \/ (~result.ok /\ result.msg # {})]_vars
    /\ [][(toPeer' # toPeer /\ Len(toPeer') >= Len(toPeer)) =>
            /\ pc = "send"
            /\ req # NoReq
            /\ toPeer' = Append(toPeer, ToVec(req))]_vars
    /\ [][(mode = "watch" /\ pc # "watch_loop") => events' >= events]_vars
    /\ [][(events' < events \/ ticket' # ticket) =>
            /\ pc = "watch_loop"
            /\ req = NoReq
            /\ events' = events - 1
            /\ ticket' = (ticket + 1) % TicketMod
            /\ pc' = "match"]_vars

C13_Witness ==
    /\ mode = "watch"
    /\ pc = "send"
    /\ xch = NewExchange
    /\ ticket = 2
    /\ arrived = (2 + EventCap) % TicketMod
    /\ events = EventCap

\* C14: correlation id round trip: for every id, the text form made by
\* Into<String> or Display from as_bytes, decoded with TryFrom<&str>, is the
\* original id, and the bytes that were encoded are the 8 bytes Into<[u8; 8]>
\* returns.
C14_IdRoundTrip ==
    (idpc = "parsed" /\ id # NoId) =>
        /\ parsed = [ok |-> TRUE, val |-> id]
        /\ bytes = IntoBytes(id)

\* the characters of the URL-safe alphabet
AlphabetChars == {Alphabet[n] : n \in 1 .. 64}

\* a text is validly encoded: every character is of the URL-safe alphabet,
\* the last group is not a single character, and it leaves no bits set
ValidlyEncoded(t) ==
    /\ \A i \in 1 .. Len(t) : t[i] \in AlphabetChars
    /\ Len(t) % 4 # 1
    /\ Len(t) % 4 = 2 => Sextet(t[Len(t)]) % 16 = 0
    /\ Len(t) % 4 = 3 => Sextet(t[Len(t)]) % 4 = 0

\* C15: decoding a text that has a character outside the alphabet fails with
\* the invalid-encoding error; decoding a validly encoded text that stands for
\* a number of bytes other than 8 fails with the invalid-length error; no id
\* is produced in either case.
C15_DecodeErrors ==
    idpc = "parsed" =>
        /\ (\E i \in 1 .. Len(string) : string[i] \notin AlphabetChars)
              => parsed = [ok |-> FALSE, val |-> Base64DecodeError]
        /\ (ValidlyEncoded(string) /\ (Len(string) * 3) \div 4 # 8)
              => parsed = [ok |-> FALSE, val |-> TryFromSliceError]

C15_Witness ==
    /\ idpc = "parsed"
    /\ id = NoId
    /\ string = [i \in 1 .. 12 |-> "A"]
    /\ parsed = [ok |-> FALSE, val |-> TryFromSliceError]

\* C16: a read timeout is the only thing that causes a resend. The exchange
\* comes to a send only as its first send or after a timeout of the receive
\* (nothing was queued, nothing was read, the timeout is counted); a response
\* that was read ends the retry loop whatever it is: Success returns Ok, Error
\* and an undecodable response return an error, Wait goes to the final wait;
\* a receive that read nothing and did not time out, and a failed send, return
\* the I/O error with nothing sent.
C16_OnlyTimeoutResends ==
    /\ [](pc \in {"send", "recv"} =>
            /\ xch.recvd = <<>>
            /\ xch.sends = (IF pc = "send" THEN xch.timeouts ELSE Sat(xch.timeouts))
                 \/ xch.sends = SendCap)
    /\ [][(pc' = "send" /\ pc # "send") =>
            \/ pc \in {"main", "match"} /\ xch' = NewExchange
            \/ /\ pc = "recv"
               /\ inbox = <<>>
               /\ timeout = "TIMEOUT"
               /\ xch' = [xch EXCEPT !.timeouts = Sat(@)]
               /\ toPeer' = toPeer]_vars
    /\ [][(pc = "recv" /\ inbox' # inbox /\ pc' # pc) =>
            LET r == Decoded(Head(inbox).wire)
            IN  /\ xch'.recvd = <<Head(inbox).wire>>
                /\ xch'.sends = xch.sends
                /\ toPeer' = toPeer
                /\ r = "Success" => (pc' = "returned" /\ result' = Ok)
                /\ r = "Error" => (pc' = "returned" /\ result' = Err(UnityError))
                /\ r = "Wait" => (pc' = "final_recv" /\ result' = NoResult)
                /\ r = "undecodable" =>
                      (pc' = "returned" /\ result' = Err(SerdeError(Head(inbox).wire)))]_vars
    /\ [][(pc = "recv" /\ inbox' = inbox /\ pc' \notin {"recv", "send"}) =>
            (pc' = "returned" /\ result' = Err(IoError) /\ xch' = xch /\ toPeer' = toPeer)]_vars
    /\ [][(pc = "send" /\ pc' # "send") =>
            \/ pc' = "recv"
            \/ pc' = "returned" /\ result' = Err(IoError) /\ xch' = xch /\ toPeer' = toPeer]_vars

C16_Witness ==
    /\ pc = "returned"
    /\ xch.recvd = <<Wire("junk", "")>>
    /\ result = Err(SerdeError(Wire("junk", "")))
    /\ xch.timeouts = 1
    /\ xch.sends = 2

\* C17: in every exchange the socket's read timeout is TIMEOUT at every
\* receive before a Wait and None only at the one receive after a Wait; it
\* changes to None only when a Wait is read and back to TIMEOUT at the start
\* of every exchange, also of one that follows an exchange which ended in the
\* unbounded wait; the receive after a Wait is not repeated.
C17_ReadTimeoutPerExchange ==
    /\ [](pc \in {"send", "recv"} => (timeout = "TIMEOUT" /\ ~GotWait(xch)))
    /\ [](pc = "final_recv" => (timeout = "None" /\ xch.recvd = <<Wire("Wait", "")>>))
    /\ [][(pc' = "send" /\ pc \in {"main", "match"}) => timeout' = "TIMEOUT"]_vars
    /\ [][(timeout' # timeout) =>
            \/ /\ timeout' = "None"
               /\ pc = "recv"
               /\ pc' = "final_recv"
               /\ Decoded(Head(inbox).wire) = "Wait"
            \/ /\ timeout' = "TIMEOUT"
               /\ pc \in {"main", "match"}
               /\ pc' = "send"]_vars
    /\ [][(pc = "final_recv" /\ pc' # pc) => pc' = "returned"]_vars

C17_Witness ==
    /\ mode = "refresh"
    /\ profile = "wait_success"
    /\ step = 2
    /\ hist = <<[cmd |-> "Refresh", ok |-> TRUE]>>
    /\ pc = "recv"
    /\ req.cmd = "CheckAlive"
    /\ timeout = "TIMEOUT"

\* C18: response attribution: every response the client reads in an
\* exchange was produced by the peer in reply to a datagram of that exchange;
\* a reply to the request of an earlier exchange (which carries another
\* command, as Refresh before CheckAlive) is never read as the response of a
\* later one.
C18_ResponseAttribution ==
    [][(Len(xch'.recvd) > Len(xch.recvd)) => Head(inbox).re = req.cmd]_vars

====
